---------------------------- MODULE Spec2Model ----------------------------
(***************************************************************************)
(* Transaction coordinators of the No False Negatives Database prototype.  *)
(*                                                                         *)
(*   sgt_..  src/include/svcc/cc/nofalsenegatives/transaction_coordinator  *)
(*            .hpp (serialization graph testing)                           *)
(*   pl_..   src/include/svcc/cc/2pl_table/transaction_coordinator.hpp     *)
(*            (strict two-phase locking)                                   *)
(*                                                                         *)
(* One worker thread owns the thread_local members (transaction_counter_,  *)
(* not_alive_, current_core_, abort_transaction_, atom_info_); the column, *)
(* the per-cell bookkeeping, the lock manager and the serialization graph  *)
(* are shared.  LockManager, SerializationGraph and the TransactionInfor-  *)
(* mation classes are only included by the coordinators, so they are       *)
(* modelled from their documented contract (lm_.., sg_.., ti_..).          *)
(*                                                                         *)
(* Variables starting with h_ are history variables: they record what      *)
(* happened (accesses, results) and are never read by the program.         *)
(***************************************************************************)
EXTENDS Integers, Sequences, FiniteSets, Bags, TLC

\* ------------------------------------------------------------------ bounds
MaxTx  == 2     \* transactions the threads start, all together
MaxOps == 4     \* readValue/read/writeValue calls the clients make, all together

Threads    == {1, 2}
Cells      == {0, 1}
Strategies == {"SGT", "SS2PL"}

VARIABLES
  strategy,            \* which coordinator class the process instantiated
  column,              \* ValueVector<Value>& column
  rw_table,            \* Vector<List<uint64_t>*>& rw_table : set of <<ticket, record>> per cell
  lsn_column,          \* Vector<uint64_t>& lsn_column
  locked,              \* SGT: Vector<uint64_t>& locked (spin word per cell)
  locking,             \* SS2PL: Vector<pair<uint64_t, set<uint64_t>>*>& locking
  lm_live,             \* SS2PL: transactions registered by lock_manager_.start
  sg_,                 \* SGT: serial::SerializationGraph sg_
  transaction_counter_,\* thread_local
  not_alive_,          \* thread_local
  current_core_,       \* thread_local
  abort_transaction_,  \* thread_local
  atom_info_,          \* thread_local list, front = newest
  freed_info_,         \* per thread: the records of the list that atom_info_->~list() destroyed
  pc,                  \* where each thread is inside the coordinator
  arg,                 \* arguments of the call in progress
  lockInfo,            \* SGT: the local uint64_t lockInfo of the call in progress
  no_abort_needed,     \* SS2PL: the local bool of the call in progress
  ret,                 \* value returned by the thread's last finished call
  oset,                \* the out-parameter of the thread's last commit
  cur,                 \* the transaction id the client of the thread holds (0: none)
  nops,                \* operations the client of each thread has called so far
  h_dep,               \* conflict edges <<T1, T2>>: T1 accessed a cell before T2, one of them writing
  h_acc,               \* data accesses <<tx, cell, isWrite>> made by client operations
  h_committed,         \* transactions whose commit returned true
  h_pre,               \* <<tx, cell, v>>: v was in the cell just before tx's first write to it
  h_writer,            \* per cell: the transaction whose write put the current value there (0: none)
  h_failed,            \* per thread: how many operations of cur have returned false
  h_dirty,             \* <<reader, writer, cell>>: reader read the cell while it held the
                       \* write of writer, a live transaction that had not committed
  h_wlog,              \* per cell: the transaction of each write to it, in the order of the writes
  h_ids,               \* <<thread, id>>: start() returned id to the thread
  enc,                 \* an access record under test: input, access(..) of it, find(..) of that
  workload             \* what the clients do at most: transactions started, operations called

shared  == <<strategy, column, rw_table, lsn_column, locked, locking, lm_live, sg_>>
locals  == <<transaction_counter_, not_alive_, current_core_, abort_transaction_, atom_info_,
             freed_info_>>
frames  == <<pc, arg, lockInfo, no_abort_needed, ret, oset, cur, nops>>
history == <<h_dep, h_acc, h_committed, h_pre, h_writer, h_failed, h_dirty, h_wlog, h_ids>>
vars    == <<shared, locals, frames, history, enc, workload>>

NoCore == 255                  \* std::numeric_limits<uint8_t>::max()
CounterMod == 2 ^ 4            \* stands for 2^56: the width of the counter part of an id
NoArg == [op |-> "none", offset |-> 0, value |-> 0]
NoEnc == [stage |-> "none", transaction |-> 0, rw |-> FALSE, encoded_id |-> 0,
          found |-> <<0, FALSE>>]
EncCalls == {1, 2}             \* two independent uses of access / find

\* ---------------------------------------------------------- access records
HighBit == CounterMod * 128    \* stands for 2^63: bit 63, the top bit of the core byte

access(transaction, rw) ==
  IF rw THEN HighBit + (transaction % HighBit) ELSE transaction % HighBit

\* find without the mask on the id
find_unmasked(encoded_id) == <<encoded_id, (encoded_id \div HighBit) % 2 = 1>>

find(encoded_id) == <<encoded_id % HighBit, (encoded_id \div HighBit) % 2 = 1>>

\* ------------------------------------------------- transaction information
ReadInfo(offset, transaction) ==
  [write |-> FALSE, prv |-> 0, offset |-> offset, tx |-> transaction,
   new |-> 0, old |-> 0, abort |-> FALSE]

WriteInfo(new, old, offset, transaction, abort) ==
  [write |-> TRUE, prv |-> 0, offset |-> offset, tx |-> transaction,
   new |-> new, old |-> old, abort |-> abort]

\* t->writeValue(tc): the coordinator's write path with abort = true, which only
\* swaps the recorded old value back into the column
RECURSIVE ti_replay(_, _)
ti_replay(col, infos) ==
  IF infos = <<>> THEN col
  ELSE LET t == Head(infos)
       IN IF ~t.write \/ t.abort
            THEN ti_replay(col, Tail(infos))
            ELSE ti_replay([col EXCEPT ![t.offset] = t.old], Tail(infos))

\* t->deleteFromRWTable(): rw_table[offset]->erase(prv), for every record of the log
RECURSIVE ti_deleteFromRWTable(_, _)
ti_deleteFromRWTable(tab, infos) ==
  IF infos = <<>> THEN tab
  ELSE LET t == Head(infos)
       IN ti_deleteFromRWTable(
            [tab EXCEPT ![t.offset] = {e \in @ : e[1] # t.prv}], Tail(infos))

\* ------------------------------------------------------ serialization graph
sg_empty == [nodes |-> {}, edges |-> {}, committed |-> {}, abort_needed |-> {},
             this_node |-> [t \in Threads |-> 0]]

sg_newNode(g) == Cardinality(g.nodes) + 1

sg_createNode(g, t) ==
  [g EXCEPT !.nodes = @ \cup {sg_newNode(g)}, !.this_node[t] = sg_newNode(g)]

sg_needsAbort(g, transaction) == transaction \in g.abort_needed

\* the targets of the cascading edges that leave the thread's node
sg_cascade(g, t) == {e[2] : e \in {x \in g.edges : x[1] = g.this_node[t] /\ x[3]}}

sg_abort(g, t) ==
  [g EXCEPT !.abort_needed = @ \cup sg_cascade(g, t),
            !.edges = {e \in @ : e[1] # g.this_node[t] /\ e[2] # g.this_node[t]}]

\* ------------------------------------------------------------ lock manager
lm_free == [excl |-> FALSE, holders |-> EmptyBag]

\* a lock manager that sees no conflict
lm_conflicting_none(lk, transaction, exclusive) == {}

\* the holders a request of transaction conflicts with
lm_conflicting(lk, transaction, exclusive) ==
  IF exclusive \/ lk.excl THEN BagToSet(lk.holders) \ {transaction} ELSE {}

\* grant when compatible; otherwise wait if every conflicting holder has a
\* smaller id than the requester, and deny if not
lm_outcome(lk, transaction, exclusive) ==
  LET conf == lm_conflicting(lk, transaction, exclusive)
  IN IF conf = {} THEN "grant"
     ELSE IF \A h \in conf : h < transaction THEN "wait" ELSE "deny"

lm_grant(lk, transaction, exclusive) ==
  [excl |-> lk.excl \/ exclusive, holders |-> lk.holders (+) SetToBag({transaction})]

\* what a denied request leaves in abort_set: the holders it lost against
lm_victims(lk, transaction, exclusive) ==
  {h \in lm_conflicting(lk, transaction, exclusive) : h > transaction}

lm_unlock(lk, transaction) ==
  LET h == lk.holders (-) SetToBag({transaction})
  IN [excl |-> IF BagToSet(h) = {} THEN FALSE ELSE lk.excl, holders |-> h]

\* t->unlock(&lock_manager_), for every record of the log
RECURSIVE ti_unlock(_, _)
ti_unlock(lks, infos) ==
  IF infos = <<>> THEN lks
  ELSE LET t == Head(infos)
       IN ti_unlock([lks EXCEPT ![t.offset] = lm_unlock(@, t.tx)], Tail(infos))

\* ----------------------------------------------------------------- initial
\* the state after construction of a coordinator and its tables
InitProgram ==
  /\ strategy \in Strategies
  /\ column = [c \in Cells |-> 0]
  /\ rw_table = [c \in Cells |-> {}]
  /\ lsn_column = [c \in Cells |-> 0]
  /\ locked = [c \in Cells |-> 0]
  /\ locking = [c \in Cells |-> lm_free]
  /\ lm_live = {}
  /\ sg_ = sg_empty
  /\ transaction_counter_ = [t \in Threads |-> 0]
  /\ not_alive_ = [t \in Threads |-> {}]
  /\ current_core_ = [t \in Threads |-> NoCore]
  /\ abort_transaction_ = [t \in Threads |-> {}]
  /\ atom_info_ = [t \in Threads |-> <<>>]
  /\ freed_info_ = [t \in Threads |-> <<>>]
  /\ pc = [t \in Threads |-> "idle"]
  /\ arg = [t \in Threads |-> NoArg]
  /\ lockInfo = [t \in Threads |-> 0]
  /\ no_abort_needed = [t \in Threads |-> TRUE]
  /\ ret = [t \in Threads |-> TRUE]
  /\ oset = [t \in Threads |-> {}]
  /\ cur = [t \in Threads |-> 0]
  /\ nops = [t \in Threads |-> 0]
  /\ h_dep = {}
  /\ h_acc = {}
  /\ h_committed = {}
  /\ h_pre = {}
  /\ h_writer = [c \in Cells |-> 0]
  /\ h_failed = [t \in Threads |-> 0]
  /\ h_dirty = {}
  /\ h_wlog = [c \in Cells |-> <<>>]
  /\ h_ids = {}

Init ==
  /\ InitProgram
  /\ workload = [tx |-> MaxTx, ops |-> MaxOps]
  /\ enc = [i \in EncCalls |-> NoEnc]

\* ------------------------------------------------------------------ client
\* The client of a thread runs one transaction at a time: start, then
\* operations, then commit; abort at any point before.  A transaction that was
\* aborted may be abandoned for a new one without a commit.  The coordinators
\* only copy values, so a transaction writes its own id as the value, which
\* tells whose write a cell holds (ids are greater than 0, cells start at 0).
RECURSIVE Started(_)
Started(ts) ==
  IF ts = {} THEN 0
  ELSE LET t == CHOOSE x \in ts : TRUE IN transaction_counter_[t] + Started(ts \ {t})

CanStart(t) ==
  /\ pc[t] = "idle"
  /\ cur[t] = 0 \/ cur[t] \in not_alive_[t]
  /\ Started(Threads) < workload.tx

RECURSIVE Called(_)
Called(ts) ==
  IF ts = {} THEN 0
  ELSE LET t == CHOOSE x \in ts : TRUE IN nops[t] + Called(ts \ {t})

\* the client of thread t calls readValue, read or writeValue for its transaction
CanCall(t) ==
  /\ pc[t] = "idle"
  /\ cur[t] # 0
  /\ Called(Threads) < workload.ops

\* the call is entered with these arguments
Enter(t, op, offset) ==
  /\ arg' = [arg EXCEPT ![t] = [op |-> op, offset |-> offset,
                                 value |-> IF op = "writeValue" THEN cur[t] ELSE 0]]
  /\ nops' = [nops EXCEPT ![t] = @ + 1]

\* the call returns at once
Refuse(t) ==
  /\ pc' = [pc EXCEPT ![t] = "idle"]
  /\ ret' = [ret EXCEPT ![t] = FALSE]
  /\ h_failed' = [h_failed EXCEPT ![t] = @ + 1]
  /\ nops' = [nops EXCEPT ![t] = @ + 1]

\* an operation returns to the client
Return(t, value) ==
  /\ pc' = [pc EXCEPT ![t] = "idle"]
  /\ arg' = [arg EXCEPT ![t] = NoArg]
  /\ ret' = [ret EXCEPT ![t] = value]
  /\ h_failed' = [h_failed EXCEPT ![t] = IF value THEN @ ELSE @ + 1]

\* read returns to the client, which keeps the arguments and the value returned
\* (1 in both coordinators) for the readUndo call that registers the read
ReturnRead(t) ==
  /\ pc' = [pc EXCEPT ![t] = "idle"]
  /\ arg' = [arg EXCEPT ![t].value = 1]
  /\ ret' = [ret EXCEPT ![t] = TRUE]
  /\ UNCHANGED h_failed

\* the client of thread t has a read that it has not registered with readUndo
CanReadUndo(t) ==
  /\ pc[t] = "idle"
  /\ arg[t].op = "read"
  /\ cur[t] # 0
  /\ cur[t] \notin not_alive_[t]

\* a transaction some client holds that neither committed nor aborted
Live(tx) == \E u \in Threads : cur[u] = tx /\ tx \notin not_alive_[u]

\* the history of a data access of transaction tx to cell c
Observe(tx, c, isWrite) ==
  /\ h_acc' = h_acc \cup {<<tx, c, isWrite>>}
  /\ h_dep' = h_dep \cup
       {<<a[1], tx>> : a \in {x \in h_acc : x[2] = c /\ x[1] # tx /\ (x[3] \/ isWrite)}}
  /\ h_pre' = IF isWrite /\ ~\E p \in h_pre : p[1] = tx /\ p[2] = c
                THEN h_pre \cup {<<tx, c, column[c]>>} ELSE h_pre
  /\ h_writer' = IF isWrite THEN [h_writer EXCEPT ![c] = tx] ELSE h_writer
  /\ h_dirty' = IF ~isWrite /\ h_writer[c] \notin {0, tx} /\ Live(h_writer[c])
                  THEN h_dirty \cup {<<tx, h_writer[c], c>>} ELSE h_dirty
  /\ h_wlog' = IF isWrite THEN [h_wlog EXCEPT ![c] = Append(@, tx)] ELSE h_wlog

\* the history of an undo replay: the restored cells hold nobody's write
ObserveUndo(infos) ==
  h_writer' = [c \in Cells |->
                 IF \E i \in DOMAIN infos : infos[i].write /\ ~infos[i].abort /\ infos[i].offset = c
                   THEN 0 ELSE h_writer[c]]

\* thread t runs pinned to its own core
sched_getcpu(t) == t

\* the cores sched_getcpu() may report to a thread that is not pinned
Cores == {1, 2}

\* ============================================================== SGT strategy
\* if (not_alive != not_alive_.end()) return false;
sgt_dead(t, transaction) == transaction \in not_alive_[t]

\* uint64_t lockInfo = locked[offset];
\* while (__sync_bool_compare_and_swap(&lockInfo, 0, 1)) {;}
\* The swap works on the local copy: from 0 it succeeds once (lockInfo = 1) and
\* then fails, from any other value it fails at once.  The loop always ends and
\* locked[offset] is never written.
sgt_spin(word) == IF word = 0 THEN 1 ELSE word

\* __sync_bool_compare_and_swap(&lockInfo, 1, 0);
sgt_release(word) == IF word = 1 THEN 0 ELSE word

\* whether the thread is between the acquisition and the release for cell c
sgt_inside(t, c) == pc[t] \in {"rv_cs", "rd_cs", "wv_cs"} /\ arg[t].offset = c

\* void abort(uint64_t transaction)
sgt_abort_body(t, transaction) ==
  /\ not_alive_' = [not_alive_ EXCEPT ![t] = @ \cup {transaction}]
  /\ column' = ti_replay(column, atom_info_[t])
  /\ sg_' = sg_abort(sg_, t)
  /\ abort_transaction_' = [abort_transaction_ EXCEPT ![t] = @ \cup sg_cascade(sg_, t)]
  /\ rw_table' = ti_deleteFromRWTable(rw_table, atom_info_[t])
  /\ atom_info_' = [atom_info_ EXCEPT ![t] = <<>>]
  /\ freed_info_' = [freed_info_ EXCEPT ![t] = atom_info_[t]]
  /\ ObserveUndo(atom_info_[t])

\* the common head of readValue, read and writeValue<abort = false>: the
\* not_alive_ test, the needsAbort test and the acquisition of the cell
sgt_begin(t, op, offset, inside) ==
  LET transaction == cur[t]
  IN IF sgt_dead(t, transaction)
       THEN /\ Refuse(t)
            /\ UNCHANGED <<shared, locals, arg, lockInfo, no_abort_needed, oset, cur,
                           h_dep, h_acc, h_committed, h_pre, h_dirty, h_writer,
                           enc, workload, h_wlog, h_ids>>
       ELSE IF sg_needsAbort(sg_, transaction)
         THEN /\ sgt_abort_body(t, transaction)
              /\ Refuse(t)
              /\ UNCHANGED <<strategy, lsn_column, locked, locking, lm_live,
                             transaction_counter_, current_core_,
                             arg, lockInfo, no_abort_needed, oset, cur,
                             h_dep, h_acc, h_committed, h_pre, h_dirty,
                             enc, workload, h_wlog, h_ids>>
         ELSE /\ Enter(t, op, offset)
              /\ lockInfo' = [lockInfo EXCEPT ![t] = sgt_spin(locked[offset])]
              /\ pc' = [pc EXCEPT ![t] = inside]
              /\ UNCHANGED <<shared, locals, history, no_abort_needed, ret, oset, cur, enc, workload>>

\* bool readValue(readValue, column, lsn_column, rw_table, locked, offset, transaction)
sgt_readValue(t) ==
  /\ strategy = "SGT"
  /\ CanCall(t)
  /\ \E offset \in Cells : sgt_begin(t, "readValue", offset, "rv_cs")

\* readValue = column[offset]; release; return true
sgt_readValue_cs(t) ==
  /\ pc[t] = "rv_cs"
  /\ Observe(cur[t], arg[t].offset, FALSE)
  /\ lockInfo' = [lockInfo EXCEPT ![t] = sgt_release(@)]
  /\ Return(t, TRUE)
  /\ UNCHANGED <<shared, locals, no_abort_needed, oset, cur, nops, h_committed, enc, workload, h_ids>>

\* uint64_t read(lsn_column, rw_table, locked, offset, transaction)
sgt_read(t) ==
  /\ strategy = "SGT"
  /\ CanCall(t)
  /\ \E offset \in Cells : sgt_begin(t, "read", offset, "rd_cs")

\* release; return true
sgt_read_cs(t) ==
  /\ pc[t] = "rd_cs"
  /\ lockInfo' = [lockInfo EXCEPT ![t] = sgt_release(@)]
  /\ ReturnRead(t)
  /\ UNCHANGED <<shared, locals, no_abort_needed, oset, cur, nops,
                 h_dep, h_acc, h_committed, h_pre, h_dirty, h_writer,
                 enc, workload, h_wlog, h_ids>>

\* void readUndo(prv, lsn_column, rw_table, locked, offset, transaction), called
\* with the value read returned as prv:
\* lsn_column.atomic_replace(offset, prv);
\* atom_info_->emplace_front(read record with ticket prv - 1)
sgt_readUndo(t) ==
  /\ strategy = "SGT"
  /\ CanReadUndo(t)
  /\ lsn_column' = [lsn_column EXCEPT ![arg[t].offset] = arg[t].value]
  /\ atom_info_' = [atom_info_ EXCEPT ![t] = <<ReadInfo(arg[t].offset, cur[t])>> \o @]
  /\ UNCHANGED freed_info_
  /\ arg' = [arg EXCEPT ![t] = NoArg]
  /\ UNCHANGED <<strategy, column, rw_table, locked, locking, lm_live, sg_,
                 transaction_counter_, not_alive_, current_core_, abort_transaction_,
                 pc, lockInfo, no_abort_needed, ret, oset, cur, nops, history, enc, workload>>

\* bool writeValue(writeValue, column, lsn_column, rw_table, locked, offset, transaction)
sgt_writeValue(t) ==
  /\ strategy = "SGT"
  /\ CanCall(t)
  /\ \E offset \in Cells : sgt_begin(t, "writeValue", offset, "wv_cs")

\* Value old = column.replace(offset, writeValue); release; return true
\* (no undo record is appended)
sgt_writeValue_cs(t) ==
  /\ pc[t] = "wv_cs"
  /\ column' = [column EXCEPT ![arg[t].offset] = arg[t].value]
  /\ Observe(cur[t], arg[t].offset, TRUE)
  /\ lockInfo' = [lockInfo EXCEPT ![t] = sgt_release(@)]
  /\ Return(t, TRUE)
  /\ UNCHANGED <<strategy, rw_table, lsn_column, locked, locking, lm_live, sg_,
                 locals, no_abort_needed, oset, cur, nops, h_committed,
                 enc, workload, h_ids>>

\* abort(transaction) called by the client
sgt_abort(t) ==
  /\ strategy = "SGT"
  /\ pc[t] = "idle"
  /\ cur[t] # 0
  /\ cur[t] \notin not_alive_[t]
  /\ sgt_abort_body(t, cur[t])
  /\ arg' = [arg EXCEPT ![t] = NoArg]
  /\ UNCHANGED <<strategy, lsn_column, locked, locking, lm_live,
                 transaction_counter_, current_core_,
                 pc, lockInfo, no_abort_needed, ret, oset, cur, nops,
                 h_dep, h_acc, h_committed, h_pre, h_dirty, h_failed,
                 enc, workload, h_wlog, h_ids>>

\* bool all_pending_transactions_commited = true;
sgt_all_pending_transactions_commited == TRUE

\* sg_.checkCommited(): the thread's node has no incoming edge from a node that
\* is not committed
sg_checkCommited(g, t) ==
  \A e \in g.edges : e[2] = g.this_node[t] => e[1] \in g.committed

\* bool commit(uint64_t transaction, std::unordered_set<uint64_t>& oset)
\* while (!all_pending_transactions_commited) { ... } return true;
sgt_commit(t) ==
  LET transaction == cur[t]
  IN
  /\ strategy = "SGT"
  /\ pc[t] = "idle"
  /\ cur[t] # 0
  /\ IF ~sgt_all_pending_transactions_commited
       THEN IF transaction \in not_alive_[t]
              THEN /\ not_alive_' = [not_alive_ EXCEPT ![t] = @ \ {transaction}]
                   /\ oset' = [oset EXCEPT ![t] = abort_transaction_[t]]
                   /\ Return(t, FALSE)
                   /\ cur' = [cur EXCEPT ![t] = 0]
                   /\ UNCHANGED <<shared, transaction_counter_, current_core_,
                                  abort_transaction_, atom_info_, freed_info_, h_committed, h_writer,
                                  enc, workload, h_ids>>
              ELSE IF sg_needsAbort(sg_, transaction)
                THEN /\ column' = ti_replay(column, atom_info_[t])
                     /\ sg_' = sg_abort(sg_, t)
                     /\ abort_transaction_' =
                          [abort_transaction_ EXCEPT ![t] = @ \cup sg_cascade(sg_, t)]
                     /\ rw_table' = ti_deleteFromRWTable(rw_table, atom_info_[t])
                     /\ atom_info_' = [atom_info_ EXCEPT ![t] = <<>>]
                     /\ freed_info_' = [freed_info_ EXCEPT ![t] = atom_info_[t]]
                     /\ ObserveUndo(atom_info_[t])
                     /\ oset' = [oset EXCEPT ![t] = abort_transaction_'[t]]
                     /\ Return(t, FALSE)
                     /\ cur' = [cur EXCEPT ![t] = 0]
                     /\ UNCHANGED <<strategy, lsn_column, locked, locking, lm_live,
                                    transaction_counter_, not_alive_, current_core_,
                                    h_committed,
                                    enc, workload, h_ids>>
                ELSE /\ sg_checkCommited(sg_, t)
                     /\ sg_' = [sg_ EXCEPT !.committed = @ \cup {sg_.this_node[t]}]
                     /\ rw_table' = ti_deleteFromRWTable(rw_table, atom_info_[t])
                     /\ Return(t, TRUE)
                     /\ h_committed' = h_committed \cup {transaction}
                     /\ cur' = [cur EXCEPT ![t] = 0]
                     /\ UNCHANGED <<strategy, column, lsn_column, locked, locking, lm_live,
                                    locals, oset, h_writer,
                                    enc, workload, h_ids>>
       ELSE /\ Return(t, TRUE)
            /\ h_committed' = h_committed \cup {transaction}
            /\ cur' = [cur EXCEPT ![t] = 0]
            /\ UNCHANGED <<shared, locals, oset, h_writer, enc, workload, h_ids>>
  /\ UNCHANGED <<lockInfo, no_abort_needed, nops, h_dep, h_acc, h_pre, h_dirty, h_wlog>>

\* uint64_t start(): the id computed from the counter and the core is dropped,
\* the id returned is the one of the new graph node
sgt_start_on(t, cpu) ==
  /\ strategy = "SGT"
  /\ CanStart(t)
  /\ transaction_counter_' = [transaction_counter_ EXCEPT ![t] = @ + 1]
  /\ current_core_' = [current_core_ EXCEPT ![t] = IF @ = NoCore THEN cpu ELSE @]
  /\ atom_info_' = [atom_info_ EXCEPT ![t] = <<>>]
  /\ freed_info_' = [freed_info_ EXCEPT ![t] = <<>>]
  /\ abort_transaction_' = [abort_transaction_ EXCEPT ![t] = {}]
  /\ sg_' = sg_createNode(sg_, t)
  /\ cur' = [cur EXCEPT ![t] = sg_newNode(sg_)]
  /\ h_ids' = h_ids \cup {<<t, sg_newNode(sg_)>>}
  /\ h_failed' = [h_failed EXCEPT ![t] = 0]
  /\ UNCHANGED <<strategy, column, rw_table, lsn_column, locked, locking, lm_live,
                 not_alive_, pc, arg, lockInfo, no_abort_needed, ret, oset, nops,
                 h_dep, h_acc, h_committed, h_pre, h_dirty, h_writer,
                 enc, workload, h_wlog>>

\* start() on a thread pinned to its core
sgt_start(t) == sgt_start_on(t, sched_getcpu(t))

\* what thread t may do next: a step of the call it is in, or its client's next call
sgt_thread(t) ==
    \/ sgt_start(t)
    \/ sgt_readValue(t)
    \/ sgt_readValue_cs(t)
    \/ sgt_read(t)
    \/ sgt_read_cs(t)
    \/ sgt_readUndo(t)
    \/ sgt_writeValue(t)
    \/ sgt_writeValue_cs(t)
    \/ sgt_abort(t)
    \/ sgt_commit(t)

NextSGT == \E t \in Threads : sgt_thread(t)

InitSGT == Init /\ strategy = "SGT"

SpecSGT == InitSGT /\ [][NextSGT]_vars

\* every thread keeps being scheduled
SpecSGTFair == SpecSGT /\ \A t \in Threads : WF_vars(sgt_thread(t))

\* ============================================================ SS2PL strategy
\* tc &= 0x00FFFFFFFFFFFFFF; tc |= (core << 56);
pl_txid(core, tc) == core * CounterMod + (tc % CounterMod)

\* an operation that does not look at not_alive_
pl_dead_unchecked(t, transaction) == FALSE

\* if (not_alive != not_alive_.end()) return false;
pl_dead(t, transaction) == transaction \in not_alive_[t]

\* an undo log that takes its records at the back
pl_emplace_back(list, info) == Append(list, info)

\* atom_info_->emplace_front(info)
pl_emplace_front(list, info) == <<info>> \o list

\* a coordinator that goes on after a denied request
pl_denied_ignored(t) == FALSE

\* if (!no_abort_needed) { this->abort(transaction); return false; }
pl_denied(t) == ~no_abort_needed[t]

\* an abort that forgets to mark the transaction
pl_mark_dead_lost(t, transaction) == not_alive_[t]

\* not_alive_.insert(transaction);
pl_mark_dead(t, transaction) == not_alive_[t] \cup {transaction}

\* void abort(uint64_t transaction)
pl_abort_body(t, transaction) ==
  /\ not_alive_' = [not_alive_ EXCEPT ![t] = pl_mark_dead(t, transaction)]
  /\ column' = ti_replay(column, atom_info_[t])
  /\ locking' = ti_unlock(locking, atom_info_[t])
  /\ rw_table' = ti_deleteFromRWTable(rw_table, atom_info_[t])
  /\ atom_info_' = [atom_info_ EXCEPT ![t] = <<>>]
  /\ freed_info_' = [freed_info_ EXCEPT ![t] = atom_info_[t]]
  /\ ObserveUndo(atom_info_[t])

\* lock_manager_.lock(transaction, exclusive, locking, offset, abort_transaction_)
\* returns: granted, or denied with the victims left in abort_transaction_
pl_lock(t, exclusive, offset, locked_pc) ==
  LET transaction == cur[t]
      granted == lm_outcome(locking[offset], transaction, exclusive) = "grant"
  IN /\ locking' = IF granted
                     THEN [locking EXCEPT ![offset] = lm_grant(@, transaction, exclusive)]
                     ELSE locking
     /\ abort_transaction_' =
          IF granted THEN abort_transaction_
          ELSE [abort_transaction_ EXCEPT
                  ![t] = @ \cup lm_victims(locking[offset], transaction, exclusive)]
     /\ no_abort_needed' = [no_abort_needed EXCEPT ![t] = granted]
     /\ pc' = [pc EXCEPT ![t] = locked_pc]

\* the head of readValue, read and writeValue<abort = false>: the not_alive_
\* test and the call of lock_manager_.lock, which spins while the request has
\* to wait
pl_begin(t, op, exclusive, offset, wait_pc, locked_pc) ==
  LET transaction == cur[t]
  IN IF pl_dead(t, transaction)
       THEN /\ Refuse(t)
            /\ UNCHANGED <<shared, locals, arg, lockInfo, no_abort_needed, oset, cur,
                           h_dep, h_acc, h_committed, h_pre, h_dirty, h_writer,
                           enc, workload, h_wlog, h_ids>>
       ELSE /\ Enter(t, op, offset)
            /\ IF lm_outcome(locking[offset], transaction, exclusive) = "wait"
                 THEN /\ pc' = [pc EXCEPT ![t] = wait_pc]
                      /\ UNCHANGED <<locking, abort_transaction_, no_abort_needed>>
                 ELSE pl_lock(t, exclusive, offset, locked_pc)
            /\ UNCHANGED <<strategy, column, rw_table, lsn_column, locked, lm_live, sg_,
                           transaction_counter_, not_alive_, current_core_, atom_info_, freed_info_,
                           lockInfo, ret, oset, cur, history,
                           enc, workload>>

\* lock_manager_.lock returns to a request that had to wait
pl_wait(t) ==
  /\ pc[t] \in {"rv_wait", "rd_wait", "wv_wait"}
  /\ lm_outcome(locking[arg[t].offset], cur[t], pc[t] = "wv_wait") # "wait"
  /\ pl_lock(t, pc[t] = "wv_wait", arg[t].offset,
             CASE pc[t] = "rv_wait" -> "rv_locked"
               [] pc[t] = "rd_wait" -> "rd_locked"
               [] OTHER -> "wv_locked")
  /\ UNCHANGED <<strategy, column, rw_table, lsn_column, locked, lm_live, sg_,
                 transaction_counter_, not_alive_, current_core_, atom_info_, freed_info_,
                 arg, lockInfo, ret, oset, cur, nops, history,
                 enc, workload>>

\* the self-abort of a denied operation
pl_self_abort(t) ==
  /\ pl_abort_body(t, cur[t])
  /\ Return(t, FALSE)
  /\ no_abort_needed' = [no_abort_needed EXCEPT ![t] = TRUE]
  /\ UNCHANGED <<strategy, lsn_column, locked, lm_live, sg_,
                 transaction_counter_, current_core_, abort_transaction_,
                 lockInfo, oset, cur, nops, h_dep, h_acc, h_committed, h_pre, h_dirty,
                 enc, workload, h_wlog, h_ids>>

\* bool readValue(readValue, column, lsn_column, rw_table, locking, offset, transaction)
pl_readValue(t) ==
  /\ strategy = "SS2PL"
  /\ CanCall(t)
  /\ \E offset \in Cells : pl_begin(t, "readValue", FALSE, offset, "rv_wait", "rv_locked")

\* a readValue that gives its shared lock back as soon as it has read
pl_readValue_unlocks(t) == [locking EXCEPT ![arg[t].offset] = lm_unlock(@, cur[t])]

\* the lock table when readValue returns true: the lock it took stays, to be
\* released through the read record at commit or abort
pl_readValue_locks(t) == locking

\* readValue = column[offset]; atom_info_->emplace_front(read record); return true
pl_readValue_body(t) ==
  /\ pc[t] = "rv_locked"
  /\ IF pl_denied(t)
       THEN pl_self_abort(t)
       ELSE /\ Observe(cur[t], arg[t].offset, FALSE)
            /\ atom_info_' = [atom_info_ EXCEPT
                                ![t] = pl_emplace_front(@, ReadInfo(arg[t].offset, cur[t]))]
            /\ UNCHANGED freed_info_
            /\ locking' = pl_readValue_locks(t)
            /\ Return(t, TRUE)
            /\ UNCHANGED <<strategy, column, rw_table, lsn_column, locked, lm_live, sg_,
                           transaction_counter_, not_alive_, current_core_,
                           abort_transaction_, lockInfo, no_abort_needed, oset, cur, nops,
                           h_committed, enc, workload, h_ids>>

\* uint64_t read(lsn_column, rw_table, locking, offset, transaction)
pl_read(t) ==
  /\ strategy = "SS2PL"
  /\ CanCall(t)
  /\ \E offset \in Cells : pl_begin(t, "read", FALSE, offset, "rd_wait", "rd_locked")

\* return 1 (no undo record is appended: that is left to readUndo)
pl_read_body(t) ==
  /\ pc[t] = "rd_locked"
  /\ IF pl_denied(t)
       THEN pl_self_abort(t)
       ELSE /\ ReturnRead(t)
            /\ UNCHANGED <<shared, locals, lockInfo, no_abort_needed, oset, cur, nops,
                           h_dep, h_acc, h_committed, h_pre, h_dirty, h_writer,
                           enc, workload, h_wlog, h_ids>>

\* void readUndo(prv, lsn_column, rw_table, locking, offset, transaction):
\* atom_info_->emplace_front(read record)
pl_readUndo(t) ==
  /\ strategy = "SS2PL"
  /\ CanReadUndo(t)
  /\ atom_info_' = [atom_info_ EXCEPT ![t] = pl_emplace_front(@, ReadInfo(arg[t].offset, cur[t]))]
  /\ UNCHANGED freed_info_
  /\ arg' = [arg EXCEPT ![t] = NoArg]
  /\ UNCHANGED <<shared, transaction_counter_, not_alive_, current_core_,
                 abort_transaction_, pc, lockInfo, no_abort_needed, ret, oset, cur, nops,
                 history, enc, workload>>

\* bool writeValue(writeValue, column, lsn_column, rw_table, locking, offset, transaction)
pl_writeValue(t) ==
  /\ strategy = "SS2PL"
  /\ CanCall(t)
  /\ \E offset \in Cells : pl_begin(t, "writeValue", TRUE, offset, "wv_wait", "wv_locked")

\* Value old = column.replace(offset, writeValue);
\* atom_info_->emplace_front(write record); return true
pl_writeValue_body(t) ==
  /\ pc[t] = "wv_locked"
  /\ IF pl_denied(t)
       THEN pl_self_abort(t)
       ELSE /\ column' = [column EXCEPT ![arg[t].offset] = arg[t].value]
            /\ Observe(cur[t], arg[t].offset, TRUE)
            /\ atom_info_' = [atom_info_ EXCEPT
                                ![t] = pl_emplace_front(@,
                                         WriteInfo(arg[t].value, column[arg[t].offset],
                                                   arg[t].offset, cur[t], FALSE))]
            /\ UNCHANGED freed_info_
            /\ Return(t, TRUE)
            /\ UNCHANGED <<strategy, rw_table, lsn_column, locked, locking, lm_live, sg_,
                           transaction_counter_, not_alive_, current_core_,
                           abort_transaction_, lockInfo, no_abort_needed, oset, cur, nops,
                           h_committed,
                           enc, workload, h_ids>>

\* abort(transaction) called by the client
pl_abort(t) ==
  /\ strategy = "SS2PL"
  /\ pc[t] = "idle"
  /\ cur[t] # 0
  /\ cur[t] \notin not_alive_[t]
  /\ pl_abort_body(t, cur[t])
  /\ arg' = [arg EXCEPT ![t] = NoArg]
  /\ UNCHANGED <<strategy, lsn_column, locked, lm_live, sg_,
                 transaction_counter_, current_core_, abort_transaction_,
                 pc, lockInfo, no_abort_needed, ret, oset, cur, nops,
                 h_dep, h_acc, h_committed, h_pre, h_dirty, h_failed,
                 enc, workload, h_wlog, h_ids>>

\* bool commit(uint64_t transaction, std::unordered_set<uint64_t>& oset)
pl_commit(t) ==
  LET transaction == cur[t]
  IN
  /\ strategy = "SS2PL"
  /\ pc[t] = "idle"
  /\ cur[t] # 0
  /\ IF transaction \in not_alive_[t]
       THEN /\ not_alive_' = [not_alive_ EXCEPT ![t] = @ \ {transaction}]
            /\ lm_live' = lm_live \ {transaction}
            /\ oset' = [oset EXCEPT ![t] = abort_transaction_[t]]
            /\ Return(t, FALSE)
            /\ UNCHANGED <<locking, rw_table, atom_info_, freed_info_, h_committed>>
       ELSE /\ locking' = ti_unlock(locking, atom_info_[t])
            /\ rw_table' = ti_deleteFromRWTable(rw_table, atom_info_[t])
            /\ atom_info_' = [atom_info_ EXCEPT ![t] = <<>>]
            /\ freed_info_' = [freed_info_ EXCEPT ![t] = atom_info_[t]]
            /\ lm_live' = lm_live \ {transaction}
            /\ Return(t, TRUE)
            /\ h_committed' = h_committed \cup {transaction}
            /\ UNCHANGED <<not_alive_, oset>>
  /\ cur' = [cur EXCEPT ![t] = 0]
  /\ UNCHANGED <<strategy, column, lsn_column, locked, sg_,
                 transaction_counter_, current_core_, abort_transaction_,
                 lockInfo, no_abort_needed, nops, h_dep, h_acc, h_pre, h_dirty, h_writer,
                 enc, workload, h_wlog, h_ids>>

\* uint64_t start(), with cpu what sched_getcpu() reports
pl_start_on(t, cpu) ==
  LET tc == transaction_counter_[t] + 1
      core == IF current_core_[t] = NoCore THEN cpu ELSE current_core_[t]
  IN
  /\ strategy = "SS2PL"
  /\ CanStart(t)
  /\ core <= 127
  /\ transaction_counter_' = [transaction_counter_ EXCEPT ![t] = tc]
  /\ current_core_' = [current_core_ EXCEPT ![t] = core]
  /\ atom_info_' = [atom_info_ EXCEPT ![t] = <<>>]
  /\ freed_info_' = [freed_info_ EXCEPT ![t] = <<>>]
  /\ abort_transaction_' = [abort_transaction_ EXCEPT ![t] = {}]
  /\ lm_live' = lm_live \cup {pl_txid(core, tc)}
  /\ cur' = [cur EXCEPT ![t] = pl_txid(core, tc)]
  /\ h_ids' = h_ids \cup {<<t, pl_txid(core, tc)>>}
  /\ h_failed' = [h_failed EXCEPT ![t] = 0]
  /\ UNCHANGED <<strategy, column, rw_table, lsn_column, locked, locking, sg_,
                 not_alive_, pc, arg, lockInfo, no_abort_needed, ret, oset, nops,
                 h_dep, h_acc, h_committed, h_pre, h_dirty, h_writer,
                 enc, workload, h_wlog>>

\* start() on a thread pinned to its core
pl_start(t) == pl_start_on(t, sched_getcpu(t))

\* what thread t may do next: a step of the call it is in, or its client's next call
pl_thread(t) ==
    \/ pl_start(t)
    \/ pl_wait(t)
    \/ pl_readValue(t)
    \/ pl_readValue_body(t)
    \/ pl_read(t)
    \/ pl_read_body(t)
    \/ pl_readUndo(t)
    \/ pl_writeValue(t)
    \/ pl_writeValue_body(t)
    \/ pl_abort(t)
    \/ pl_commit(t)

NextPL == \E t \in Threads : pl_thread(t)

InitPL == Init /\ strategy = "SS2PL"

SpecPL == InitPL /\ [][NextPL]_vars

\* the state in which thread 1 has run one transaction that called read on
\* cell 0, with no readUndo after it, and has committed: the lock read took is
\* in no undo record, so commit has left it in the lock table
AfterLeakedRead ==
  /\ strategy = "SS2PL"
  /\ column = [c \in Cells |-> 0]
  /\ rw_table = [c \in Cells |-> {}]
  /\ lsn_column = [c \in Cells |-> 0]
  /\ locked = [c \in Cells |-> 0]
  /\ locking = [c \in Cells |->
                  IF c = 0 THEN [excl |-> FALSE, holders |-> SetToBag({pl_txid(sched_getcpu(1), 1)})]
                           ELSE lm_free]
  /\ lm_live = {}
  /\ sg_ = sg_empty
  /\ transaction_counter_ = [t \in Threads |-> IF t = 1 THEN 1 ELSE 0]
  /\ not_alive_ = [t \in Threads |-> {}]
  /\ current_core_ = [t \in Threads |-> IF t = 1 THEN sched_getcpu(1) ELSE NoCore]
  /\ abort_transaction_ = [t \in Threads |-> {}]
  /\ atom_info_ = [t \in Threads |-> <<>>]
  /\ freed_info_ = [t \in Threads |-> <<>>]
  /\ pc = [t \in Threads |-> "idle"]
  /\ arg = [t \in Threads |-> NoArg]
  /\ lockInfo = [t \in Threads |-> 0]
  /\ no_abort_needed = [t \in Threads |-> TRUE]
  /\ ret = [t \in Threads |-> TRUE]
  /\ oset = [t \in Threads |-> {}]
  /\ cur = [t \in Threads |-> 0]
  /\ nops = [t \in Threads |-> IF t = 1 THEN 1 ELSE 0]
  /\ h_dep = {}
  /\ h_acc = {}
  /\ h_committed = {pl_txid(sched_getcpu(1), 1)}
  /\ h_pre = {}
  /\ h_writer = [c \in Cells |-> 0]
  /\ h_failed = [t \in Threads |-> 0]
  /\ h_dirty = {}
  /\ h_wlog = [c \in Cells |-> <<>>]
  /\ h_ids = {<<1, pl_txid(sched_getcpu(1), 1)>>}
  /\ enc = [i \in EncCalls |-> NoEnc]

\* the clients go on from there with one transaction and one operation more
\* than the workload of Init
InitPLStale ==
  /\ AfterLeakedRead
  /\ workload = [tx |-> MaxTx + 1, ops |-> MaxOps + 1]

SpecPLStale == InitPLStale /\ [][NextPL]_vars

\* ------------------------------------------- clients that abort a second time
\* abort(transaction) called by the client for a transaction that a denied
\* operation or an earlier abort call has aborted already.  atom_info_ points
\* to a list whose destructor has run: the loops of abort walk a destroyed
\* object.  A build either finds no record there (the destructor left the list
\* empty, or the list held nothing) or walks the freed nodes and finds the
\* records the list held when it was destroyed, replaying and unlocking them
\* once more.
pl_abort_again(t) ==
  /\ strategy = "SS2PL"
  /\ pc[t] = "idle"
  /\ cur[t] # 0
  /\ cur[t] \in not_alive_[t]
  /\ \E seen \in {<<>>, freed_info_[t]} :
       /\ column' = ti_replay(column, seen)
       /\ locking' = ti_unlock(locking, seen)
       /\ rw_table' = ti_deleteFromRWTable(rw_table, seen)
       /\ ObserveUndo(seen)
  /\ arg' = [arg EXCEPT ![t] = NoArg]
  /\ UNCHANGED <<strategy, lsn_column, locked, lm_live, sg_, locals,
                 pc, lockInfo, no_abort_needed, ret, oset, cur, nops,
                 h_dep, h_acc, h_committed, h_pre, h_dirty, h_failed,
                 enc, workload, h_wlog, h_ids>>

NextPLAbortAgain == NextPL \/ \E t \in Threads : pl_abort_again(t)

SpecPLAbortAgain == InitPL /\ [][NextPLAbortAgain]_vars

\* ------------------------------------------------------ the write-skew clients
\* Two clients under SS2PL, one transaction each: the client of thread t
\* reads cell 0, reads cell 1 and writes cell t - 1, then commits; after an
\* operation that returned false it goes to its commit.
SkewReads == <<0, 1>>

SkewOps == Len(SkewReads) + 1

InitWriteSkew ==
  /\ InitProgram
  /\ strategy = "SS2PL"
  /\ enc = [i \in EncCalls |-> NoEnc]
  /\ workload = [tx |-> Cardinality(Threads), ops |-> SkewOps * Cardinality(Threads)]

\* the client has been refused nothing so far
skew_going(t) == cur[t] \notin not_alive_[t]

skew_start(t) == transaction_counter_[t] = 0 /\ pl_start(t)

skew_read(t) ==
  /\ skew_going(t)
  /\ nops[t] < Len(SkewReads)
  /\ pl_readValue(t)
  /\ arg'[t].offset = SkewReads[nops[t] + 1]

skew_write(t) ==
  /\ skew_going(t)
  /\ nops[t] = Len(SkewReads)
  /\ pl_writeValue(t)
  /\ arg'[t].offset = t - 1

skew_commit(t) ==
  /\ nops[t] = SkewOps \/ ~skew_going(t)
  /\ pl_commit(t)

skew_thread(t) ==
  \/ skew_start(t)
  \/ skew_read(t)
  \/ skew_write(t)
  \/ skew_commit(t)
  \/ pl_wait(t)
  \/ pl_readValue_body(t)
  \/ pl_writeValue_body(t)

NextWriteSkew == \E t \in Threads : skew_thread(t)

SpecWriteSkew == InitWriteSkew /\ [][NextWriteSkew]_vars

\* every thread keeps being scheduled
SpecPLFair == SpecPL /\ \A t \in Threads : WF_vars(pl_thread(t))

\* ------------------------------------------------------------ both strategies
Next == NextSGT \/ NextPL

Spec == Init /\ [][Next]_vars

\* ------------------------------------------------- threads that are not pinned
\* start() of either coordinator on a thread that the scheduler may have put on
\* any core; the transactions then only end
any_sgt_start(t) == \E cpu \in Cores : sgt_start_on(t, cpu)

any_pl_start(t) == \E cpu \in Cores : pl_start_on(t, cpu)

NextAnyCore ==
  \E t \in Threads :
    \/ any_sgt_start(t)
    \/ any_pl_start(t)
    \/ sgt_abort(t)
    \/ sgt_commit(t)
    \/ pl_abort(t)
    \/ pl_commit(t)

SpecAnyCore == Init /\ [][NextAnyCore]_vars

\* --------------------------------------------------- access records on their own
EncMaxCounter == 2

\* cores an 8-bit core number can name, around the edges of the 7 bits an id leaves it
EncCores == {0, 1, 127, 128, 129, 255}

\* the ids the layout of start() gives: the core above the counter
EncIds == {pl_txid(core, tc) : core \in EncCores, tc \in 1..EncMaxCounter}

InitEnc ==
  /\ InitProgram
  /\ workload = [tx |-> MaxTx, ops |-> MaxOps]
  /\ enc \in [EncCalls -> {[NoEnc EXCEPT !.stage = "input", !.transaction = tx, !.rw = rw] :
                              tx \in EncIds, rw \in BOOLEAN}]

\* uint64_t info = access(transaction, rw)
enc_access(i) ==
  /\ enc[i].stage = "input"
  /\ enc' = [enc EXCEPT ![i].stage = "encoded",
                        ![i].encoded_id = access(enc[i].transaction, enc[i].rw)]
  /\ UNCHANGED <<shared, locals, frames, history, workload>>

\* find(info)
enc_find(i) ==
  /\ enc[i].stage = "encoded"
  /\ enc' = [enc EXCEPT ![i].stage = "decoded", ![i].found = find(enc[i].encoded_id)]
  /\ UNCHANGED <<shared, locals, frames, history, workload>>

NextEnc == \E i \in EncCalls : enc_access(i) \/ enc_find(i)

SpecEnc == InitEnc /\ [][NextEnc]_vars

\* ==================================================================== claims
\* the conflict graph of the transactions whose commit returned true
CommittedConflicts ==
  {e \in h_dep : e[1] \in h_committed /\ e[2] \in h_committed}

\* a finite graph has a cycle iff some non-empty set of nodes is closed under
\* "has a successor in the set"
HasCycle(edges) ==
  LET nodes == {e[1] : e \in edges} \cup {e[2] : e \in edges}
  IN \E S \in SUBSET nodes :
       /\ S # {}
       /\ \A n \in S : \E m \in S : <<n, m>> \in edges

\* C1: under SGT the transactions whose commit returned true are
\* conflict-serializable: the conflict graph of their accesses has no cycle.
C1_SgtCommittedSerializable ==
  strategy = "SGT" => ~HasCycle(CommittedConflicts)

\* C2: under SS2PL the transactions whose commit returned true are
\* conflict-serializable: the conflict graph of their accesses has no cycle.
C2_PlCommittedSerializable ==
  strategy = "SS2PL" => ~HasCycle(CommittedConflicts)

\* two SS2PL transactions that conflicted on a cell have both committed
C2_Witness ==
  /\ strategy = "SS2PL"
  /\ CommittedConflicts # {}

\* ----------------------------------------------------- steps seen from outside
\* thread t calls readValue, read or writeValue in this step
Calls(t) == nops'[t] # nops[t]

\* a readValue, read or writeValue call of thread t returns in this step
OpReturns(t) == pc'[t] = "idle" /\ (Calls(t) \/ pc[t] # "idle")

\* the commit call of thread t runs and returns in this step
CommitReturns(t) == cur[t] # 0 /\ cur'[t] = 0

\* abort (called by the client or by a failed operation) runs for the
\* transaction of thread t in this step
AbortRuns(t) == cur[t] # 0 /\ cur[t] \notin not_alive_[t] /\ cur[t] \in not_alive_'[t]

\* after the step, cell c holds either what it held before tx first wrote it
\* or the write of another transaction that has committed
RestoredAfter(tx, c, before) ==
  \/ column'[c] = before
  \/ h_writer'[c] \notin {0, tx} /\ h_writer'[c] \in h_committed'

\* C3: when abort(T) returns, every cell T wrote holds the value it held before
\* T's first write to it or a value written later by a committed transaction.
C3_AbortAtomicity ==
  [][\A t \in Threads :
       AbortRuns(t) =>
         \A p \in h_pre : p[1] = cur[t] => RestoredAfter(cur[t], p[2], p[3])]_vars

\* the same, for the SS2PL coordinator alone
C3_AbortAtomicityPL ==
  [][strategy = "SS2PL" =>
       \A t \in Threads :
         AbortRuns(t) =>
           \A p \in h_pre : p[1] = cur[t] => RestoredAfter(cur[t], p[2], p[3])]_vars

\* a transaction that read the uncommitted write of a transaction that aborted
\* afterwards
Doomed(tx) ==
  \E d \in h_dirty : d[1] = tx /\ \E u \in Threads : d[2] \in not_alive_[u]

\* C4: under SGT, when T2 read the cell T1 wrote and T1 aborts before it
\* commits, the abort puts back the value the cell held before T1's write, and
\* the next readValue, read, writeValue or commit of T2 returns false.
C4_SgtCascadingAbort ==
  [][strategy = "SGT" =>
       \A t \in Threads :
         /\ AbortRuns(t) =>
              \A d \in h_dirty : d[2] = cur[t] =>
                \A p \in h_pre : (p[1] = cur[t] /\ p[2] = d[3]) => column'[d[3]] = p[3]
         /\ (Doomed(cur[t]) /\ (Calls(t) \/ CommitReturns(t))) =>
              (pc'[t] = "idle" /\ ret'[t] = FALSE)]_vars

\* C5: commit(tx, cascaded) called while tx is in not_alive_ returns false,
\* removes tx from not_alive_ and copies abort_transaction_ to cascaded.
C5_CommitOfDeadTransaction ==
  [][\A t \in Threads :
       (CommitReturns(t) /\ cur[t] \in not_alive_[t]) =>
         /\ ret'[t] = FALSE
         /\ cur[t] \notin not_alive_'[t]
         /\ oset'[t] = abort_transaction_[t]]_vars

\* the same, for the SS2PL coordinator alone
C5_CommitOfDeadTransactionPL ==
  [][strategy = "SS2PL" =>
       \A t \in Threads :
         (CommitReturns(t) /\ cur[t] \in not_alive_[t]) =>
           /\ ret'[t] = FALSE
           /\ cur[t] \notin not_alive_'[t]
           /\ oset'[t] = abort_transaction_[t]]_vars

\* C6: under SGT, commit(tx) never returns true while a transaction that tx
\* depends on (the source of an edge into tx's node) is still uncommitted; the
\* committing transaction waits for it.
C6_SgtCommitBarrier ==
  [][strategy = "SGT" =>
       \A t \in Threads :
         (CommitReturns(t) /\ ret'[t] = TRUE) =>
           ~\E e \in h_dep : e[2] = cur[t] /\ Live(e[1])]_vars

\* C10 as stated, on the graph object the coordinator maintains
SgtCommittedSubgraphAcyclic ==
  strategy = "SGT" =>
    ~HasCycle({<<e[1], e[2]>> : e \in {x \in sg_.edges : x[1] \in sg_.committed /\ x[2] \in sg_.committed}})

\* the graph never has an edge, and no node is ever marked committed
SgtGraphStaysBare ==
  /\ sg_.edges = {}
  /\ sg_.committed = {}
  /\ sg_.abort_needed = {}

\* C7: under SGT no two threads are inside the section of the same cell at
\* once, and locked[offset] is 1 exactly while a thread is inside.
C7_SgtCellMutualExclusion ==
  strategy = "SGT" =>
    \A c \in Cells :
      /\ Cardinality({t \in Threads : sgt_inside(t, c)}) <= 1
      /\ locked[c] = 1 <=> \E t \in Threads : sgt_inside(t, c)

\* the exclusion alone
C7_SgtCellExclusionOnly ==
  \A c \in Cells : Cardinality({t \in Threads : sgt_inside(t, c)}) <= 1

\* C8: readValue, read or writeValue called for a transaction that is in
\* not_alive_ returns false and changes neither the column, the locks, the
\* graph, rw_table, lsn, the undo log nor not_alive_.
C8_DeadTransactionNoEffect ==
  [][\A t \in Threads :
       (Calls(t) /\ cur[t] \in not_alive_[t]) =>
         /\ pc'[t] = "idle"
         /\ ret'[t] = FALSE
         /\ UNCHANGED <<column, locking, lm_live, locked, sg_, rw_table, lsn_column,
                        atom_info_, not_alive_>>]_vars

\* an SS2PL transaction the client aborted was refused an operation afterwards,
\* while the other thread holds a lock
C8_Witness ==
  /\ strategy = "SS2PL"
  /\ \E t \in Threads :
       /\ cur[t] \in not_alive_[t]
       /\ h_failed[t] >= 1
       /\ abort_transaction_[t] = {}
       /\ pc[t] = "idle" /\ ret[t] = FALSE
  /\ \E c \in Cells : BagToSet(locking[c].holders) # {}

\* C9: once an operation of a transaction has returned false, every later
\* readValue, read or writeValue of that transaction returns false.
C9_StickyFailure ==
  [][\A t \in Threads :
       (h_failed[t] >= 1 /\ OpReturns(t)) => ret'[t] = FALSE]_vars

\* an SS2PL transaction was denied a lock, aborted itself, and was refused the
\* operation it called next
C9_Witness ==
  /\ strategy = "SS2PL"
  /\ \E t \in Threads :
       /\ abort_transaction_[t] # {}
       /\ h_failed[t] >= 2
       /\ pc[t] = "idle" /\ ret[t] = FALSE

\* a readValue or writeValue of thread t that got past the not_alive_ test
\* returns in this step
TicketedOpReturns(t) ==
  /\ pc[t] \in {"rv_cs", "wv_cs", "rv_locked", "wv_locked"}
  /\ pc'[t] = "idle"

\* C11: every readValue/writeValue on a cell holds the ticket prv = lsn[c] while
\* it works and sets lsn[c] := prv + 1 before it returns, also when it aborts;
\* so each such operation advances lsn[c] by one.
C11_TicketRelease ==
  [][\A t \in Threads :
       TicketedOpReturns(t) =>
         lsn_column'[arg[t].offset] = lsn_column[arg[t].offset] + 1]_vars

\* what the coordinators do instead: no ticket is ever put into rw_table, and
\* lsn is written by nothing but the SGT readUndo, which stores its argument
TicketsNeverUsed ==
  \A c \in Cells :
    /\ rw_table[c] = {}
    /\ lsn_column[c] \in (IF strategy = "SGT" THEN {0, 1} ELSE {0})

\* every thread is outside the coordinator and its transaction, if it has one,
\* has made its terminal call
Quiescent ==
  \A t \in Threads : pc[t] = "idle" /\ (cur[t] = 0 \/ cur[t] \in not_alive_[t])

HasCommitted(tx) == tx \in h_committed

\* the committed transactions that wrote cell c, in the order of their writes
CommittedWriters(c) == SelectSeq(h_wlog[c], HasCommitted)

\* a transaction writes its own id, so the value of the last committed write to
\* cell c is the id of the last committed writer
LastCommittedWrite(c) == CommittedWriters(c)[Len(CommittedWriters(c))]

\* C12: when every transaction has made its terminal call, every cell that
\* received a committed write holds the value of the last committed write to it.
C12_NoLostWrite ==
  Quiescent =>
    \A c \in Cells : CommittedWriters(c) # <<>> => column[c] = LastCommittedWrite(c)

\* the same, for the SS2PL coordinator alone
C12_NoLostWritePL == strategy = "SS2PL" => C12_NoLostWrite

\* SS2PL at rest: a committed write was followed by the write of a transaction
\* that aborted
C12_WitnessPL ==
  /\ strategy = "SS2PL"
  /\ Quiescent
  /\ \E c \in Cells :
       /\ CommittedWriters(c) # <<>>
       /\ h_wlog[c][Len(h_wlog[c])] \notin h_committed

\* the transactions that hold a lock on cell c
Holders(c) == BagToSet(locking[c].holders)

\* thread t is inside lock_manager_.lock, waiting for the lock of cell c
WaitsFor(t, c) == pc[t] \in {"rv_wait", "rd_wait", "wv_wait"} /\ arg[t].offset = c

\* C13: under SS2PL, when a transaction holds the exclusive lock of a cell no
\* other transaction holds a lock on that cell; a lock becomes exclusive (a
\* first grant or an upgrade) only with its requester as the sole holder.
C13_LockCompatibility ==
  strategy = "SS2PL" =>
    \A c \in Cells : locking[c].excl => Cardinality(Holders(c)) <= 1

\* a transaction holds the exclusive lock of a cell and another one is waiting
\* for a lock on the same cell
C13_Witness ==
  /\ strategy = "SS2PL"
  /\ \E c \in Cells :
       /\ locking[c].excl
       /\ \E t \in Threads : cur[t] \in Holders(c) /\ cur[t] \notin not_alive_[t]
       /\ \E u \in Threads : WaitsFor(u, c) /\ cur[u] \notin Holders(c)

\* two transactions hold the shared lock of one cell
SharedByTwo ==
  \E c \in Cells : ~locking[c].excl /\ Cardinality(Holders(c)) = 2

\* the holders of cell c that a request of tx is incompatible with
Conflicts(tx, c, exclusive) ==
  {h \in Holders(c) \ {tx} : exclusive \/ locking[c].excl}

\* the transactions whose locks keep thread t waiting
Blockers(t) ==
  IF pc[t] \in {"rv_wait", "rd_wait", "wv_wait"}
    THEN Conflicts(cur[t], arg[t].offset, pc[t] = "wv_wait")
    ELSE {}

\* thread t waits for a lock that the transaction of thread u holds
WaitsForThread == {<<t, u>> \in Threads \X Threads : cur[u] \in Blockers(t)}

\* lock_manager_.lock has returned to thread t
LockReturned(t) == pc[t] \in {"rv_locked", "rd_locked", "wv_locked"}

\* what the lock request of thread t meets in this step
WaitDieStep(t) ==
  \* it starts to wait only behind holders with smaller ids
  /\ (pc[t] = "idle" /\ Blockers(t)' # {}) => \A h \in Blockers(t)' : h < cur[t]
  \* it is denied only when a conflicting holder has a larger id
  /\ (~LockReturned(t) /\ LockReturned(t)' /\ ~no_abort_needed'[t]) =>
       \E h \in Conflicts(cur[t], arg'[t].offset, pc'[t] = "wv_locked") : h > cur[t]
  \* it is granted only when nothing conflicts
  /\ (~LockReturned(t) /\ LockReturned(t)' /\ no_abort_needed'[t]) =>
       Conflicts(cur[t], arg'[t].offset, pc'[t] = "wv_locked") = {}
  \* a denied requester aborts itself and the operation returns false
  /\ (LockReturned(t) /\ ~no_abort_needed[t] /\ ~LockReturned(t)') =>
       (pc'[t] = "idle" /\ ret'[t] = FALSE /\ cur[t] \in not_alive_'[t])

\* C14: under SS2PL an incompatible request waits only if every conflicting
\* holder has a smaller id than the requester and is denied otherwise, the
\* denied requester aborting itself; no state has a cycle of transactions each
\* waiting for a lock held by the next.
C14_WaitDie ==
  /\ [](strategy = "SS2PL" => ~HasCycle(WaitsForThread))
  /\ [][strategy = "SS2PL" => \A t \in Threads : WaitDieStep(t)]_vars

\* T1 holds cell 0 and T2 holds cell 1, both exclusively; T2 waits for cell 0,
\* and the request of T1 for cell 1 has been denied
C14_Witness ==
  /\ strategy = "SS2PL"
  /\ \E t, u \in Threads :
       /\ t # u
       /\ locking[0].excl /\ Holders(0) = {cur[t]}
       /\ locking[1].excl /\ Holders(1) = {cur[u]}
       /\ WaitsFor(u, 0)
       /\ LockReturned(t) /\ arg[t].offset = 1 /\ ~no_abort_needed[t]

\* afterwards: the denied transaction is dead and the other one holds both cells
SurvivorCompletes ==
  \E t, u \in Threads :
    /\ t # u
    /\ cur[t] \in not_alive_[t] /\ abort_transaction_[t] = {cur[u]}
    /\ <<cur[t], 0, TRUE>> \in h_acc
    /\ pc[u] = "idle" /\ ret[u] /\ h_failed[u] = 0
    /\ Holders(0) = {cur[u]} /\ Holders(1) = {cur[u]}
    /\ column[0] = cur[u] /\ column[1] = cur[u]

\* how many times transaction tx holds the lock of cell c
HeldCount(tx, c) == CopiesIn(tx, locking[c].holders)

\* C15: under SS2PL a lock granted to a transaction is released only while the
\* commit or the abort of that transaction runs.
C15_Strictness ==
  [][strategy = "SS2PL" =>
       \A c \in Cells : \A tx \in Holders(c) :
         HeldCount(tx, c)' < HeldCount(tx, c) =>
           \E t \in Threads : cur[t] = tx /\ (AbortRuns(t) \/ CommitReturns(t))]_vars

\* a transaction that accessed both cells has committed and both locks are free
C15_Witness ==
  /\ strategy = "SS2PL"
  /\ \E tx \in h_committed :
       /\ \A c \in Cells : \E w \in BOOLEAN : <<tx, c, w>> \in h_acc
       /\ \A c \in Cells : Holders(c) = {}

\* readValue, read or writeValue of thread t returns true in this step, having
\* been granted its lock
GrantedOpReturns(t) ==
  LockReturned(t) /\ no_abort_needed[t] /\ pc'[t] = "idle" /\ ret'[t] = TRUE

\* C16: under SS2PL every lock granted by readValue, read or writeValue is
\* recorded in atom_info when the operation returns, and after the commit or
\* the abort of a transaction has run the transaction holds no lock.
C16_LockRelease ==
  [][strategy = "SS2PL" =>
       \A t \in Threads :
         /\ GrantedOpReturns(t) => Len(atom_info_'[t]) = Len(atom_info_[t]) + 1
         /\ (AbortRuns(t) \/ CommitReturns(t)) =>
              \A c \in Cells : cur[t] \notin Holders(c)']_vars

\* the same for transactions that use readValue and writeValue, and read only
\* together with the readUndo that registers it
C16_LockReleaseRegistered ==
  [][strategy = "SS2PL" =>
       \A t \in Threads :
         /\ (GrantedOpReturns(t) /\ arg[t].op # "read") =>
              Len(atom_info_'[t]) = Len(atom_info_[t]) + 1
         /\ ((AbortRuns(t) \/ CommitReturns(t))
               /\ \A c \in Cells : HeldCount(cur[t], c) =
                    Cardinality({i \in DOMAIN atom_info_[t] : atom_info_[t][i].offset = c})) =>
              \A c \in Cells : cur[t] \notin Holders(c)']_vars

\* the cascaded sets that failed commits have handed to their callers (oset is
\* written by nothing but a commit that returns false)
Cascaded == UNION {oset[u] : u \in Threads}

\* C17: when a commit has returned false with cascaded set S, every transaction
\* in S that is not aborted yet gets false from its next readValue, read,
\* writeValue or commit.
C17_CascadeClosure ==
  [][\A t \in Threads :
       (/\ cur[t] \in Cascaded
        /\ cur[t] \notin not_alive_[t]
        /\ Calls(t) \/ CommitReturns(t)) =>
         (pc'[t] = "idle" /\ ret'[t] = FALSE)]_vars

\* a failed commit has handed out a cascaded set that is not empty
CascadedSomething == Cascaded # {}

\* start() returns to thread t in this step
StartReturns(t) == transaction_counter_'[t] # transaction_counter_[t]

\* C18: every id start() returns is greater than 0, greater than the ids
\* returned to the same thread before, and different from every id returned
\* before to any thread.
C18_UniqueIds ==
  [][\A t \in Threads :
       StartReturns(t) =>
         /\ cur'[t] > 0
         /\ \A e \in h_ids : e[2] # cur'[t]
         /\ \A e \in h_ids : e[1] = t => e[2] < cur'[t]]_vars

\* two threads have been given the same id
SameIdTwice == \E e, f \in h_ids : e[1] # f[1] /\ e[2] = f[2]

\* call i has been encoded / decoded
Encoded(i) == enc[i].stage \in {"encoded", "decoded"}

Decoded(i) == enc[i].stage = "decoded"

RoundTrip(i) == enc[i].found = <<enc[i].transaction, enc[i].rw>>

SameInput(i, j) == enc[i].transaction = enc[j].transaction /\ enc[i].rw = enc[j].rw

\* ids whose bit 63 is clear: the core part is at most 127
Fits63(i) == enc[i].transaction < HighBit

\* C19 as stated: for every id with an 8-bit core above the counter and every
\* mode, find(access(tx, mode)) = (tx, mode), and two different (tx, mode)
\* pairs never get the same encoding.
C19_RoundTripAnyCore ==
  /\ \A i \in EncCalls : Decoded(i) => RoundTrip(i)
  /\ \A i, j \in EncCalls :
       (Encoded(i) /\ Encoded(j) /\ ~SameInput(i, j)) => enc[i].encoded_id # enc[j].encoded_id

\* C19: for every id below 2^63 (core at most 127) and every mode,
\* find(access(tx, mode)) = (tx, mode), and two different (tx, mode) pairs of
\* such ids never get the same encoding.
C19_RoundTrip ==
  /\ \A i \in EncCalls : (Decoded(i) /\ Fits63(i)) => RoundTrip(i)
  /\ \A i, j \in EncCalls :
       (Encoded(i) /\ Encoded(j) /\ Fits63(i) /\ Fits63(j) /\ ~SameInput(i, j))
         => enc[i].encoded_id # enc[j].encoded_id

\* a write by an id of core 127 and a read by the same id, both decoded
C19_Witness ==
  /\ Decoded(1) /\ Decoded(2)
  /\ enc[1].transaction = pl_txid(127, 1) /\ enc[1].rw
  /\ enc[2].transaction = pl_txid(127, 1) /\ ~enc[2].rw
  /\ enc[1].encoded_id # enc[2].encoded_id

\* thread t is inside a call of the coordinator
InCall(t) == pc[t] # "idle"

\* C20: under fair scheduling of the threads, every call a thread is in
\* eventually returns.
C20_Progress == \A t \in Threads : InCall(t) ~> ~InCall(t)

\* the same for the SGT coordinator alone
C20_ProgressSGT == \A t \in Threads : (strategy = "SGT" /\ InCall(t)) ~> ~InCall(t)

\* a thread waits for a lock whose holders have all ended
WaitsForEnded ==
  \E t \in Threads :
    /\ pc[t] \in {"rv_wait", "rd_wait", "wv_wait"}
    /\ \A h \in Conflicts(cur[t], arg[t].offset, pc[t] = "wv_wait") :
         \A u \in Threads : cur[u] # h

\* the transactions of the two write-skew clients
SkewT1 == pl_txid(sched_getcpu(1), 1)

SkewT2 == pl_txid(sched_getcpu(2), 1)

\* both clients have started their transaction and their commit has returned
SkewDone == \A t \in Threads : transaction_counter_[t] = 1 /\ cur[t] = 0 /\ pc[t] = "idle"

SkewBothCommitted == SkewDone /\ h_committed = {SkewT1, SkewT2} /\ column[0] = SkewT1

\* readValue, read or writeValue of thread t returns in this step after
\* lock_manager_.lock has denied its request
DeniedOpReturns(t) == LockReturned(t) /\ ~no_abort_needed[t] /\ pc'[t] = "idle"

\* every lock the transaction of thread t holds has its record in atom_info
AllLocksRegistered(t) ==
  \A c \in Cells :
    HeldCount(cur[t], c) =
      Cardinality({i \in DOMAIN atom_info_[t] : atom_info_[t][i].offset = c})

\* what the denied operation of thread t leaves behind, the locks aside
SelfAbortEffect(t) ==
  /\ ret'[t] = FALSE
  /\ cur[t] \in not_alive_'[t]
  /\ h_acc' = h_acc
  /\ Len(atom_info_'[t]) <= Len(atom_info_[t])
  /\ \A c \in Cells :
       column'[c] = (IF \E p \in h_pre : p[1] = cur[t] /\ p[2] = c
                       THEN (CHOOSE p \in h_pre : p[1] = cur[t] /\ p[2] = c)[3]
                       ELSE column[c])

\* C22: under SS2PL an operation whose lock request is denied returns false
\* with its transaction in not_alive; it has made no access to the column of
\* its own and appended no undo record, every cell the transaction wrote holds
\* the value from before its first write, and the transaction holds no lock.
C22_SelfAbortOnDenial ==
  [][strategy = "SS2PL" =>
       \A t \in Threads :
         DeniedOpReturns(t) =>
           (SelfAbortEffect(t) /\ \A c \in Cells : cur[t] \notin Holders(c)')]_vars

\* the same for a transaction all of whose locks are registered (it used
\* readValue and writeValue, and read only with the readUndo after it)
C22_SelfAbortOnDenialRegistered ==
  [][strategy = "SS2PL" =>
       \A t \in Threads :
         (DeniedOpReturns(t) /\ AllLocksRegistered(t)) =>
           (SelfAbortEffect(t) /\ \A c \in Cells : cur[t] \notin Holders(c)')]_vars

\* the effect without the release of the locks, for every denied operation
C22_SelfAbortEffectOnly ==
  [][strategy = "SS2PL" => \A t \in Threads : DeniedOpReturns(t) => SelfAbortEffect(t)]_vars

\* the value cell c held before transaction tx first wrote it, and the cell's
\* present value if tx never wrote it
BeforeFirstWrite(tx, c) ==
  IF \E p \in h_pre : p[1] = tx /\ p[2] = c
    THEN (CHOOSE p \in h_pre : p[1] = tx /\ p[2] = c)[3]
    ELSE column[c]

\* how many times transaction tx wrote cell c
WritesOf(tx, c) == Cardinality({i \in DOMAIN h_wlog[c] : h_wlog[c][i] = tx})

\* C23: under SS2PL the undo log of a transaction lists its records newest
\* first, and when abort runs (called by the client or by a denied operation)
\* every cell holds afterwards the value from before the transaction's first
\* write to it, however often the transaction wrote it; the replay makes no
\* access of its own and leaves no undo record.
C23_UndoOrder ==
  [][strategy = "SS2PL" =>
       \A t \in Threads :
         AbortRuns(t) =>
           /\ \A i, j \in DOMAIN atom_info_[t] :
                (i < j /\ atom_info_[t][i].write /\ atom_info_[t][j].write
                       /\ atom_info_[t][i].offset = atom_info_[t][j].offset)
                  => atom_info_[t][i].old = cur[t]
           /\ \A c \in Cells : column'[c] = BeforeFirstWrite(cur[t], c)
           /\ atom_info_'[t] = <<>>
           /\ h_acc' = h_acc]_vars

\* a transaction that wrote one cell twice has been aborted and the cell is back
\* at the value from before the first of the two writes
C23_Witness ==
  /\ strategy = "SS2PL"
  /\ \E t \in Threads : \E c \in Cells :
       /\ cur[t] \in not_alive_[t]
       /\ WritesOf(cur[t], c) >= 2
       /\ column[c] = BeforeFirstWrite(cur[t], c)
       /\ column[c] # cur[t]

\* a write replaces the value of cell c in this step
Replaces(c) == h_wlog'[c] # h_wlog[c]

\* the most recent write to cell c was made by a transaction other than tx that
\* has neither committed nor aborted
DirtyFor(tx, c) == h_writer[c] \notin {0, tx} /\ Live(h_writer[c])

\* C24: under SGT no writeValue replaces the value of a cell whose most recent
\* write was made by another transaction that is still uncommitted and not
\* aborted.
C24_SgtWriteWriteDelay ==
  [][strategy = "SGT" =>
       \A c \in Cells : Replaces(c) => ~DirtyFor(h_writer'[c], c)]_vars

\* both of two concurrent writers of one cell have committed
SgtBothWritersCommitted ==
  /\ strategy = "SGT"
  /\ \E c \in Cells : \E a, b \in h_committed :
       a # b /\ WritesOf(a, c) > 0 /\ WritesOf(b, c) > 0 /\ <<a, b>> \in h_dep /\ column[c] = b

\* abort or commit runs in this step for the transaction of thread t, which a
\* denied operation or an earlier abort has aborted already
CommitsAborted(t) == cur[t] \in not_alive_[t] /\ pl_commit(t)

EndsAgain(t) == pl_abort_again(t) \/ CommitsAborted(t)

\* C25: under SS2PL an abort or a commit of a transaction that was aborted
\* already replaces no value in the column and releases no lock.
C25_EndOnce ==
  [][strategy = "SS2PL" =>
       \A t \in Threads : EndsAgain(t) => (column' = column /\ locking' = locking)]_vars

\* the same for the commit of an aborted transaction alone
C25_CommitOfAborted ==
  [][strategy = "SS2PL" =>
       \A t \in Threads :
         CommitsAborted(t) => (column' = column /\ locking' = locking)]_vars

\* the transactions start() has returned that their thread has left behind: the
\* thread holds no transaction or has started a later one
Terminated ==
  {e[2] : e \in {f \in h_ids : cur[f[1]] # f[2]}}

\* C26: under SS2PL a transaction whose terminal call (commit, or abort as the
\* last call before the thread goes on) has returned is no longer registered
\* with the lock manager and no longer in not_alive_ of its thread.
C26_EndedWhenTerminated ==
  strategy = "SS2PL" =>
    \A tx \in Terminated :
      tx \notin lm_live /\ \A t \in Threads : tx \notin not_alive_[t]

\* the same for the transactions whose terminal call was commit: commit in this
\* step ends the registration and leaves the transaction out of not_alive_
C26_CommitEnds ==
  [][strategy = "SS2PL" =>
       \A t \in Threads :
         pl_commit(t) => (cur[t] \notin lm_live' /\ cur[t] \notin not_alive_'[t]
                          /\ cur[t] \in lm_live)]_vars

\* a thread runs its next transaction while the one it aborted is still
\* registered as live
AbortedStaysLive ==
  /\ strategy = "SS2PL"
  /\ \E tx \in Terminated : tx \in lm_live /\ \E t \in Threads : tx \in not_alive_[t]

=============================================================================
